---- MODULE Spec2Model ----
(***************************************************************************)
(* Model of the online-orders batch pipeline: the generator writes three   *)
(* delimited files, create() provisions three validated collections,       *)
(* load() reads the files back and inserts them (orders are grouped and    *)
(* nested first), and four reporting functions query the result.           *)
(*                                                                         *)
(* Texts of the product_unit_value column are sequences of one-character   *)
(* strings; money amounts of the static tables are in hundredths.          *)
(***************************************************************************)
EXTENDS Integers, Sequences, FiniteSets, TLC

VARIABLES
   pc,       \* where the run is: the next top-level call of main, or the
             \* position inside create() or load(); "done", "crashed" at the end
   calls,    \* the top-level functions main has called so far, in order
   files,    \* the categories, products and orders files: present or not, rows
   db,       \* the three collections: existence, validator, documents
   clients,  \* the MongoClient of create(), of load() and of visualize_data
   orders,   \* the list of Order documents load() has built
   log       \* what the logger has been given, in order

vars == <<pc, calls, files, db, clients, orders, log>>

(***************************************************************************)
(* Bounds of the model.                                                    *)
(***************************************************************************)
\* number of orders main asks generate_orders_csv for (5000 in the source)
NumRecords == 2
\* largest num_records the generator is exercised with on its own
MaxRecords == 2
\* longest orders table handed to the loader on its own
MaxRows == 3
\* how many times in succession the provisioner is run
MaxCreates == 2

(***************************************************************************)
(* Static reference data of the generator.                                 *)
(***************************************************************************)
categories_data ==
   << [id |-> 1, name |-> "Electronics"],
      [id |-> 2, name |-> "Books"],
      [id |-> 3, name |-> "Home & Kitchen"],
      [id |-> 4, name |-> "Sports"],
      [id |-> 5, name |-> "Clothing"] >>

products_data ==
   <<
      [id |-> 1, name |-> "Laptop", category_id |-> 1, price |-> 179999],
      [id |-> 2, name |-> "Smartphone", category_id |-> 1, price |-> 15067],
      [id |-> 3, name |-> "Headphones", category_id |-> 1, price |-> 4912],
      [id |-> 4, name |-> "Tablet", category_id |-> 1, price |-> 29934],
      [id |-> 5, name |-> "Camera", category_id |-> 1, price |-> 39956],
      [id |-> 6, name |-> "E-book Reader", category_id |-> 2, price |-> 11978],
      [id |-> 7, name |-> "Cookbook", category_id |-> 2, price |-> 2434],
      [id |-> 8, name |-> "Novel", category_id |-> 2, price |-> 1467],
      [id |-> 9, name |-> "Textbook", category_id |-> 2, price |-> 7923],
      [id |-> 10, name |-> "Blender", category_id |-> 3, price |-> 5945],
      [id |-> 11, name |-> "Coffee Maker", category_id |-> 3, price |-> 9978],
      [id |-> 12, name |-> "Microwave", category_id |-> 3, price |-> 14934],
      [id |-> 13, name |-> "Vacuum Cleaner", category_id |-> 3, price |-> 19956],
      [id |-> 14, name |-> "Soccer Ball", category_id |-> 4, price |-> 2912],
      [id |-> 15, name |-> "Tennis Racket", category_id |-> 4, price |-> 6934],
      [id |-> 16, name |-> "Basketball", category_id |-> 4, price |-> 2456],
      [id |-> 17, name |-> "Yoga Mat", category_id |-> 4, price |-> 1978],
      [id |-> 18, name |-> "Running Shoes", category_id |-> 4, price |-> 8923],
      [id |-> 19, name |-> "T-shirt", category_id |-> 5, price |-> 1445],
      [id |-> 20, name |-> "Jeans", category_id |-> 5, price |-> 3978],
      [id |-> 21, name |-> "Jacket", category_id |-> 5, price |-> 5934],
      [id |-> 22, name |-> "Sneakers", category_id |-> 5, price |-> 4956],
      [id |-> 23, name |-> "Dress", category_id |-> 5, price |-> 6912],
      [id |-> 24, name |-> "Smartwatch", category_id |-> 1, price |-> 24934],
      [id |-> 25, name |-> "Monitor", category_id |-> 1, price |-> 17956],
      [id |-> 26, name |-> "Keyboard", category_id |-> 1, price |-> 3912],
      [id |-> 27, name |-> "Mouse", category_id |-> 1, price |-> 1934],
      [id |-> 28, name |-> "Printer", category_id |-> 1, price |-> 11956],
      [id |-> 29, name |-> "Fiction Book", category_id |-> 2, price |-> 978],
      [id |-> 30, name |-> "Non-fiction Book", category_id |-> 2, price |-> 1923],
      [id |-> 31, name |-> "Mystery Book", category_id |-> 2, price |-> 1445],
      [id |-> 32, name |-> "Science Book", category_id |-> 2, price |-> 2978],
      [id |-> 33, name |-> "Toaster", category_id |-> 3, price |-> 2434],
      [id |-> 34, name |-> "Mixer", category_id |-> 3, price |-> 4456],
      [id |-> 35, name |-> "Air Fryer", category_id |-> 3, price |-> 9912],
      [id |-> 36, name |-> "Grill", category_id |-> 3, price |-> 14978],
      [id |-> 37, name |-> "Dumbbells", category_id |-> 4, price |-> 4934],
      [id |-> 38, name |-> "Treadmill", category_id |-> 4, price |-> 49956],
      [id |-> 39, name |-> "Exercise Bike", category_id |-> 4, price |-> 29912],
      [id |-> 40, name |-> "Golf Clubs", category_id |-> 4, price |-> 39934],
      [id |-> 41, name |-> "Hat", category_id |-> 5, price |-> 1956],
      [id |-> 42, name |-> "Scarf", category_id |-> 5, price |-> 2412],
      [id |-> 43, name |-> "Gloves", category_id |-> 5, price |-> 1434],
      [id |-> 44, name |-> "Socks", category_id |-> 5, price |-> 956],
      [id |-> 45, name |-> "Belt", category_id |-> 5, price |-> 2912],
      [id |-> 46, name |-> "Smart TV", category_id |-> 1, price |-> 59934],
      [id |-> 47, name |-> "Gaming Console", category_id |-> 1, price |-> 39956],
      [id |-> 48, name |-> "Router", category_id |-> 1, price |-> 7912],
      [id |-> 49, name |-> "External Hard Drive", category_id |-> 1, price |-> 9934],
      [id |-> 50, name |-> "Webcam", category_id |-> 1, price |-> 6956]
   >>

(***************************************************************************)
(* Small helpers on sequences and texts.                                   *)
(***************************************************************************)
Range(s) == { s[i] : i \in DOMAIN s }

DigitChars == <<"0", "1", "2", "3", "4", "5", "6", "7", "8", "9">>

IsDigit(ch) == \E d \in DOMAIN DigitChars : DigitChars[d] = ch

DigitValue(ch) == (CHOOSE d \in DOMAIN DigitChars : DigitChars[d] = ch) - 1

RECURSIVE Digits(_)
\* decimal digits of a natural number, most significant first
Digits(n) == IF n < 10 THEN << DigitChars[n + 1] >>
             ELSE Digits(n \div 10) \o << DigitChars[(n % 10) + 1] >>

RECURSIVE NatOf(_)
\* the number a non-empty text of digits denotes
NatOf(s) == IF Len(s) = 0 THEN 0
            ELSE 10 * NatOf(SubSeq(s, 1, Len(s) - 1)) + DigitValue(s[Len(s)])

(***************************************************************************)
(* Generator (generate_csv_data.py).                                       *)
(***************************************************************************)
\* repr() of a float literal with two decimals, as csv.writer writes it:
\* the shortest text that reads back to the same float (59.40 -> "59.4")
FloatRepr(cents) ==
   Digits(cents \div 100) \o <<".">> \o
   ( IF cents % 10 = 0 THEN << DigitChars[((cents % 100) \div 10) + 1] >>
     ELSE << DigitChars[((cents % 100) \div 10) + 1], DigitChars[(cents % 10) + 1] >> )

\* a plausible slip of the lookup: indexing from the end of the list
product_unit_value_negative_index(product_id) ==
   products_data[Len(products_data) + 1 - product_id].price

\* _products_data()[product_id - 1]["price"]; Python lists count from 0,
\* sequences here from 1
product_unit_value(product_id) == products_data[(product_id - 1) + 1].price

\* the values the random source returns, sampled inside the ranges the code
\* asks for: customer 1000..6000, 1..3 lines, product 1..len(products), 
\* quantity 1..2, a date between 2022-01-01 and now
FakerRanges ==
   [customers |-> 1000..6000, lines |-> 1..3,
    products |-> 1..Len(products_data), quantities |-> 1..2]

\* draws that vary the product of a line
DrawsByProduct ==
   [customers |-> {1000}, dates |-> {1}, lines |-> 1..3,
    products |-> {1, Len(products_data)}, quantities |-> {1}]

\* draws that vary the customer and the date of an order
DrawsByOrder ==
   [customers |-> {1000, 6000}, dates |-> {1, 2}, lines |-> 1..3,
    products |-> {1}, quantities |-> {2}]

\* draws that vary the quantity of a line
DrawsByQuantity ==
   [customers |-> {6000}, dates |-> {2}, lines |-> 1..3,
    products |-> {2}, quantities |-> 1..2]

\* the draws of a full run
DrawsOfRun ==
   [customers |-> {1000}, dates |-> {1}, lines |-> 1..3,
    products |-> {Len(products_data)}, quantities |-> {2}]

\* one written order line
OrderLine(order_id, customer_id, order_date, product_id, product_quantity) ==
   [id |-> order_id, customer_id |-> customer_id, date |-> order_date,
    product_id |-> product_id, product_quantity |-> product_quantity,
    product_unit_value |-> FloatRepr(product_unit_value(product_id))]

RECURSIVE OrderLines_customer_per_line(_, _, _, _, _)
\* a slip: the customer drawn inside the inner loop, once for every line
OrderLines_customer_per_line(draws, order_id, customer_id, order_date, n) ==
   IF n = 0 THEN { <<>> }
   ELSE { <<OrderLine(order_id, c, order_date, p, q)>> \o rest :
             c \in draws.customers \cap FakerRanges.customers,
             p \in draws.products \cap FakerRanges.products,
             q \in draws.quantities \cap FakerRanges.quantities,
             rest \in OrderLines_customer_per_line(draws, order_id, customer_id,
                                                   order_date, n - 1) }

RECURSIVE OrderLines(_, _, _, _, _)
\* the inner loop: every way to write n lines of one order
OrderLines(draws, order_id, customer_id, order_date, n) ==
   IF n = 0 THEN { <<>> }
   ELSE { <<OrderLine(order_id, customer_id, order_date, p, q)>> \o rest :
             p \in draws.products \cap FakerRanges.products,
             q \in draws.quantities \cap FakerRanges.quantities,
             rest \in OrderLines(draws, order_id, customer_id, order_date, n - 1) }

RECURSIVE OrdersRows(_, _, _)
\* the outer loop, for i in range(i, num_records): every file body it can write
OrdersRows(draws, i, num_records) ==
   IF i >= num_records THEN { <<>> }
   ELSE UNION { { first \o rest :
                     first \in OrderLines(draws, i, c, d, n),
                     rest \in OrdersRows(draws, i + 1, num_records) } :
                  c \in draws.customers \cap FakerRanges.customers,
                  d \in draws.dates,
                  n \in draws.lines \cap FakerRanges.lines }

CategoriesRows == [ i \in DOMAIN categories_data |->
                      [id |-> categories_data[i].id, name |-> categories_data[i].name] ]

\* a slip: the product's own id written in the category_id column
ProductsRows_id_as_category ==
   [ i \in DOMAIN products_data |->
       [id |-> products_data[i].id, name |-> products_data[i].name,
        category_id |-> products_data[i].id] ]

ProductsRows == [ i \in DOMAIN products_data |->
                    [id |-> products_data[i].id, name |-> products_data[i].name,
                     category_id |-> products_data[i].category_id] ]

NoFile == [exists |-> FALSE, rows |-> <<>>]

File(rows) == [exists |-> TRUE, rows |-> rows]

(***************************************************************************)
(* The document database: a collection exists or not, carries a validator  *)
(* and holds documents in insertion order.                                 *)
(***************************************************************************)
Collections == <<"categories", "products", "orders">>

CollectionNames == Range(Collections)

NoValidator == [required |-> {}, items |-> {}]

\* the $jsonSchema validators: the required fields of a document and of the
\* entries of its products array
CategoriesValidator == [required |-> {"id", "name"}, items |-> {}]

ProductsValidator == [required |-> {"id", "name", "category_id"}, items |-> {}]

OrdersValidator ==
   [required |-> {"id", "customer_id", "date", "products"},
    items |-> {"product_id", "product_quantity", "product_unit_value"}]

ValidatorOf(c) ==
   CASE c = "categories" -> CategoriesValidator
     [] c = "products" -> ProductsValidator
     [] c = "orders" -> OrdersValidator

Absent == [exists |-> FALSE, validator |-> NoValidator, docs |-> <<>>]

list_collection_names(d) == { c \in CollectionNames : d[c].exists }

drop_collection(d, c) == [d EXCEPT ![c] = Absent]

create_collection(d, c) ==
   [d EXCEPT ![c] = [exists |-> TRUE, validator |-> NoValidator, docs |-> <<>>]]

collMod(d, c, validator) == [d EXCEPT ![c].validator = validator]

\* does the collection's validator accept the document
Validates(validator, doc) ==
   /\ validator.required \subseteq DOMAIN doc
   /\ validator.items # {} =>
         \A i \in DOMAIN doc.products : validator.items \subseteq DOMAIN doc.products[i]

\* the longest prefix of docs the validator accepts
ValidPrefix(validator, docs) ==
   CHOOSE k \in 0..Len(docs) :
      /\ \A i \in 1..k : Validates(validator, docs[i])
      /\ k < Len(docs) => ~Validates(validator, docs[k + 1])

\* an ordered insert_many that wrote the first k documents; writing to a
\* collection that does not exist creates it, without a validator
insert_many(d, c, docs, k) ==
   IF k = 0 THEN d
   ELSE [d EXCEPT ![c] = [exists |-> TRUE, validator |-> d[c].validator,
                          docs |-> d[c].docs \o SubSeq(docs, 1, k)]]

\* how many documents an insert_many can have written when it returns or
\* raises: all of them, or a prefix cut by the first rejected document or by
\* a write failure (sampled at 0 and 1 documents)
InsertedCounts(d, c, docs) ==
   { k \in {0, 1, Len(docs)} : k <= ValidPrefix(d[c].validator, docs) }

\* insert_many returns normally: a non-empty list, written completely
InsertSucceeds(docs, k) == Len(docs) > 0 /\ k = Len(docs)

(***************************************************************************)
(* Provisioner (create_collections.py).                                    *)
(***************************************************************************)
\* the calls of one _setup_*_collection that can raise
SetupCalls == {"list_collection_names", "drop_collection", "create_collection", "collMod"}

\* the outcomes of setting up collection c: "ok", or the call that raised
SetupOutcomes(d, c) ==
   {"ok"} \cup { r \in SetupCalls : r = "drop_collection" => d[c].exists }

\* a slip: creating over the existing collection without dropping it
drop_and_create_collection_no_drop(d, c, raised) ==
   IF raised = "list_collection_names" \/ raised = "drop_collection" THEN d
   ELSE IF raised = "create_collection" THEN d
   ELSE [d EXCEPT ![c].exists = TRUE, ![c].validator = NoValidator]

\* _drop_and_create_collection, up to the call that raised (if any)
drop_and_create_collection(d, c, raised) ==
   IF raised = "list_collection_names" THEN d
   ELSE IF c \in list_collection_names(d)
        THEN IF raised = "drop_collection" THEN d
             ELSE IF raised = "create_collection" THEN drop_collection(d, c)
             ELSE create_collection(drop_collection(d, c), c)
        ELSE IF raised = "create_collection" THEN d
             ELSE create_collection(d, c)

\* _setup_categories_collection, _setup_products_collection and
\* _setup_orders_collection: drop and create, then attach the validator
setup_collection(d, c, raised) ==
   IF raised = "ok" THEN collMod(drop_and_create_collection(d, c, raised), c, ValidatorOf(c))
   ELSE drop_and_create_collection(d, c, raised)

setup_categories_collection(d, raised) == setup_collection(d, "categories", raised)

setup_products_collection(d, raised) == setup_collection(d, "products", raised)

setup_orders_collection(d, raised) == setup_collection(d, "orders", raised)

SetupCompleted(c) == <<"info", "Collection setup completed.", c>>

CreateError == <<"error", "An error occurred: %s", "create">>

\* a slip: going on with the next collection after one failed
create_after_keep_going(c, raised) ==
   CASE c = "categories" -> "create_products"
     [] c = "products" -> "create_orders"
     [] c = "orders" -> IF raised = "ok" THEN "create_finally" ELSE "create_except"

\* where create() goes after the setup of c: the next setup, or the handler
create_after(c, raised) ==
   IF raised # "ok" THEN "create_except"
   ELSE CASE c = "categories" -> "create_products"
          [] c = "products" -> "create_orders"
          [] c = "orders" -> "create_finally"

\* the position of create() before the setup of collection c
CreatePc(c) ==
   CASE c = "categories" -> "create_categories"
     [] c = "products" -> "create_products"
     [] c = "orders" -> "create_orders"

\* client = MongoClient(MONGO_URI), which can raise before client is bound
create_connect ==
   /\ pc = "create"
   /\ calls' = Append(calls, "create")
   /\ \E connected \in BOOLEAN :
         IF connected
         THEN /\ clients' = [clients EXCEPT !.create = "open"]
              /\ pc' = "create_categories"
         ELSE /\ clients' = [clients EXCEPT !.create = "none"]
              /\ pc' = "create_except"
   /\ UNCHANGED <<files, db, orders, log>>

create_setup(c) ==
   /\ pc = CreatePc(c)
   /\ \E raised \in SetupOutcomes(db, c) :
         /\ db' = CASE c = "categories" -> setup_categories_collection(db, raised)
                    [] c = "products" -> setup_products_collection(db, raised)
                    [] c = "orders" -> setup_orders_collection(db, raised)
         /\ log' = IF raised = "ok" THEN Append(log, SetupCompleted(c)) ELSE log
         /\ pc' = create_after(c, raised)
   /\ UNCHANGED <<calls, files, clients, orders>>

\* except Exception as e: logger.error(...)
create_except ==
   /\ pc = "create_except"
   /\ log' = Append(log, CreateError)
   /\ pc' = "create_finally"
   /\ UNCHANGED <<calls, files, db, clients, orders>>

\* finally: if client: client.close(); then create() returns to main
create_finally ==
   /\ pc = "create_finally"
   /\ clients' = IF clients.create = "open" THEN [clients EXCEPT !.create = "closed"]
                 ELSE clients
   /\ pc' = "load"
   /\ UNCHANGED <<calls, files, db, orders, log>>

(***************************************************************************)
(* Loader (load_csv_data.py).                                              *)
(***************************************************************************)
FileOf(c) == c

\* what pd.read_csv can do with a file: return its rows, or raise
ReadOutcomes(f) ==
   IF files[f].exists THEN {"ok", "FileNotFoundError", "Exception"}
   ELSE {"FileNotFoundError"}

FileNotFound(f) == <<"error", "Error: The file %s was not found.", f>>

ReadingError(f) == <<"error", "Reading error: %s", f>>

LoadError == <<"error", "An error occurred loading data: %s", "load">>

LoadCompleted(c) == <<"info", "Loading data into the collection %s completed.", c>>

\* what _read_csv_file logs; it returns the rows, or None after logging
read_csv_file_log(f, outcome) ==
   CASE outcome = "ok" -> <<>>
     [] outcome = "FileNotFoundError" -> << FileNotFound(f) >>
     [] outcome = "Exception" -> << ReadingError(f) >>

\* ---- texts of the product_unit_value column ----
IsIntText(s) == Len(s) > 0 /\ \A i \in DOMAIN s : IsDigit(s[i])

\* digits with one period among them, at least one digit
IsPointText(s) ==
   /\ Cardinality({ i \in DOMAIN s : s[i] = "." }) = 1
   /\ \A i \in DOMAIN s : IsDigit(s[i]) \/ s[i] = "."
   /\ Len(s) > 1

PointAt(s) == CHOOSE i \in DOMAIN s : s[i] = "."

RECURSIVE StripLeadingZeros(_)
StripLeadingZeros(s) ==
   IF Len(s) > 1 /\ s[1] = "0" THEN StripLeadingZeros(Tail(s)) ELSE s

RECURSIVE StripTrailingZeros(_)
StripTrailingZeros(s) ==
   IF Len(s) > 1 /\ s[Len(s)] = "0" THEN StripTrailingZeros(SubSeq(s, 1, Len(s) - 1))
   ELSE s

\* the dtype pandas infers for the column: whole numbers, numbers, or text
UnitValueDtype(rows) ==
   IF \A i \in DOMAIN rows : IsIntText(rows[i].product_unit_value) THEN "int64"
   ELSE IF \A i \in DOMAIN rows : \/ IsIntText(rows[i].product_unit_value)
                                  \/ IsPointText(rows[i].product_unit_value)
        THEN "float64"
        ELSE "object"

\* str(float(text)) for a text of at most 15 significant digits: the shortest
\* text of the same number, with at least one digit on each side of the period
FloatStr(s) ==
   IF IsIntText(s) THEN StripLeadingZeros(s) \o <<".", "0">>
   ELSE LET int == SubSeq(s, 1, PointAt(s) - 1)
            frac == SubSeq(s, PointAt(s) + 1, Len(s))
        IN  StripLeadingZeros(IF int = <<>> THEN <<"0">> ELSE int) \o <<".">> \o
            StripTrailingZeros(IF frac = <<>> THEN <<"0">> ELSE frac)

\* str(v) of a cell of the column, v being a float, an int or the text itself
StrOfUnitValue(dtype, s) ==
   CASE dtype = "float64" -> FloatStr(s)
     [] dtype = "int64" -> StripLeadingZeros(s)
     [] dtype = "object" -> s

\* str.replace(",", ".")
ReplaceComma(s) == [ i \in DOMAIN s |-> IF s[i] = "," THEN "." ELSE s[i] ]

\* does Decimal128(text) accept the text (otherwise it raises)
IsDecimalText(s) == IsIntText(s) \/ IsPointText(s)

\* Decimal128(text): the digits as written and the power of ten they count
Decimal128(s) ==
   IF IsIntText(s) THEN [coefficient |-> NatOf(s), exponent |-> 0]
   ELSE [coefficient |-> NatOf(SelectSeq(s, IsDigit)),
         exponent |-> 0 - (Len(s) - PointAt(s))]

\* pd.to_datetime(date)
to_datetime(date) == [timestamp |-> date]

\* ---- the grouping ----
KeyOf(row) == <<row.id, row.customer_id, row.date>>

KeyLess(a, b) ==
   \/ a[1] < b[1]
   \/ a[1] = b[1] /\ a[2] < b[2]
   \/ a[1] = b[1] /\ a[2] = b[2] /\ a[3] < b[3]

RECURSIVE SortKeys(_)
\* the keys in ascending order
SortKeys(keys) ==
   IF keys = {} THEN <<>>
   ELSE LET least == CHOOSE k \in keys : \A o \in keys : o = k \/ KeyLess(k, o)
        IN  <<least>> \o SortKeys(keys \ {least})

\* a slip: grouping by the order id alone
groupby_id_only(rows) ==
   LET ids == { <<rows[i].id, 0, 0>> : i \in DOMAIN rows }
       keys == SortKeys(ids)
   IN  [ g \in DOMAIN keys |->
           LET first == CHOOSE i \in DOMAIN rows :
                           /\ rows[i].id = keys[g][1]
                           /\ \A j \in 1..(i - 1) : rows[j].id # keys[g][1]
               InGroup(row) == row.id = keys[g][1]
           IN  [key |-> KeyOf(rows[first]), group |-> SelectSeq(rows, InGroup)] ]

\* dataframe.groupby(["id", "customer_id", "date"]): one group per distinct
\* key, in key order, each holding its rows in file order
groupby(rows) ==
   LET keys == SortKeys({ KeyOf(rows[i]) : i \in DOMAIN rows })
   IN  [ g \in DOMAIN keys |->
           LET InGroup(row) == KeyOf(row) = keys[g]
           IN  [key |-> keys[g], group |-> SelectSeq(rows, InGroup)] ]

\* a slip: one entry per product of the order, later lines overwriting
products_of_group_by_product(dtype, group) ==
   LET Last(i) == \A j \in (i + 1)..Len(group) : group[j].product_id # group[i].product_id
       kept == SelectSeq([ i \in DOMAIN group |-> <<i, group[i]>> ],
                         LAMBDA e : Last(e[1]))
   IN  [ i \in DOMAIN kept |->
           [product_id |-> kept[i][2].product_id,
            product_quantity |-> kept[i][2].product_quantity,
            product_unit_value |->
               Decimal128(ReplaceComma(StrOfUnitValue(dtype, kept[i][2].product_unit_value)))] ]

\* the products array of one group: one entry per row
products_of_group(dtype, group) ==
   [ i \in DOMAIN group |->
       [product_id |-> group[i].product_id,
        product_quantity |-> group[i].product_quantity,
        product_unit_value |->
           Decimal128(ReplaceComma(StrOfUnitValue(dtype, group[i].product_unit_value)))] ]

\* the Order document of one group
order_document(dtype, grp) ==
   [id |-> grp.key[1],
    customer_id |-> grp.key[2],
    date |-> to_datetime(grp.key[3]),
    products |-> products_of_group(dtype, grp.group)]

\* the Order documents the loop of _load_orders_with_products has appended
\* after its first n groups
order_documents(rows, n) ==
   LET grouped == groupby(rows)
       dtype == UnitValueDtype(rows)
   IN  [ g \in 1..n |-> order_document(dtype, grouped[g]) ]

\* the first group (in key order) holding a text Decimal128 rejects; 0 if none
FirstBadGroup(rows) ==
   LET grouped == groupby(rows)
       dtype == UnitValueDtype(rows)
       Bad(g) == \E i \in DOMAIN grouped[g].group :
                    ~IsDecimalText(ReplaceComma(
                        StrOfUnitValue(dtype, grouped[g].group[i].product_unit_value)))
   IN  IF \E g \in DOMAIN grouped : Bad(g)
       THEN CHOOSE g \in DOMAIN grouped : Bad(g) /\ \A h \in 1..(g - 1) : ~Bad(h)
       ELSE 0

\* client = MongoClient(MONGO_URI) of load()
load_connect ==
   /\ pc = "load"
   /\ calls' = Append(calls, "load")
   /\ orders' = <<>>
   /\ \E connected \in BOOLEAN :
         IF connected
         THEN /\ clients' = [clients EXCEPT !.load = "open"]
              /\ pc' = "load_categories"
         ELSE /\ clients' = [clients EXCEPT !.load = "none"]
              /\ pc' = "load_except"
   /\ UNCHANGED <<files, db, log>>

LoadPc(c) ==
   CASE c = "categories" -> "load_categories"
     [] c = "products" -> "load_products"
     [] c = "orders" -> "load_orders"

\* a slip: each dataset in a try block of its own, the next one loaded anyway
load_after_keep_going(c, succeeded) ==
   CASE c = "categories" -> "load_products"
     [] c = "products" -> "load_orders"
     [] c = "orders" -> "load_finally"

\* where load() goes after a dataset: the next one, or the handler
load_after(c, succeeded) ==
   IF ~succeeded THEN "load_except"
   ELSE CASE c = "categories" -> "load_products"
          [] c = "products" -> "load_orders"
          [] c = "orders" -> "load_finally"

\* _read_csv_file then _load_dataframe_mongodb, for categories and products;
\* a file that was not read gives None, and None.to_dict raises
load_dataframe_mongodb(c) ==
   /\ pc = LoadPc(c)
   /\ \E outcome \in ReadOutcomes(FileOf(c)) :
         IF outcome # "ok"
         THEN /\ log' = log \o read_csv_file_log(FileOf(c), outcome)
              /\ db' = db
              /\ pc' = load_after(c, FALSE)
         ELSE \E k \in InsertedCounts(db, c, files[FileOf(c)].rows) :
                 LET data_dict == files[FileOf(c)].rows
                 IN  /\ db' = insert_many(db, c, data_dict, k)
                     /\ log' = IF InsertSucceeds(data_dict, k)
                               THEN Append(log, LoadCompleted(c)) ELSE log
                     /\ pc' = load_after(c, InsertSucceeds(data_dict, k))
   /\ UNCHANGED <<calls, files, clients, orders>>

\* a slip: the failure of a group swallowed, the insert issued all the same
after_grouping_insert_anyway(bad) == "load_orders_insert"

\* where _load_orders_with_products goes after its loop: to insert_many when
\* every group was transformed, out of load()'s try block when Decimal128 raised
after_grouping(bad) == IF bad = 0 THEN "load_orders_insert" ELSE "load_except"

\* _read_csv_file(ORDER_FILE), then the grouping loop of
\* _load_orders_with_products, which raises at the first text that is no decimal
load_orders_with_products ==
   /\ pc = "load_orders"
   /\ \E outcome \in ReadOutcomes("orders") :
         IF outcome # "ok"
         THEN /\ log' = log \o read_csv_file_log("orders", outcome)
              /\ orders' = orders
              /\ pc' = "load_except"
         ELSE LET rows == files["orders"].rows
                  bad == FirstBadGroup(rows)
              IN  /\ log' = log
                  /\ orders' = order_documents(rows, IF bad = 0 THEN Len(groupby(rows))
                                                     ELSE bad - 1)
                  /\ pc' = after_grouping(bad)
   /\ UNCHANGED <<calls, files, db, clients>>

\* collection.insert_many(orders) and the completion log
load_orders_insert ==
   /\ pc = "load_orders_insert"
   /\ \E k \in InsertedCounts(db, "orders", orders) :
         /\ db' = insert_many(db, "orders", orders, k)
         /\ log' = IF InsertSucceeds(orders, k)
                   THEN Append(log, LoadCompleted("orders")) ELSE log
         /\ pc' = load_after("orders", InsertSucceeds(orders, k))
   /\ UNCHANGED <<calls, files, clients, orders>>

load_except ==
   /\ pc = "load_except"
   /\ log' = Append(log, LoadError)
   /\ pc' = "load_finally"
   /\ UNCHANGED <<calls, files, db, clients, orders>>

\* finally: if client: client.close(); then load() returns to main
load_finally ==
   /\ pc = "load_finally"
   /\ clients' = IF clients.load = "open" THEN [clients EXCEPT !.load = "closed"]
                 ELSE clients
   /\ pc' = "barchart_top_customers"
   /\ UNCHANGED <<calls, files, db, orders, log>>

(***************************************************************************)
(* Reporting (visualize_data.py): four aggregations over the module-level  *)
(* client, which is opened when the module is imported.                    *)
(***************************************************************************)
Reports == <<"barchart_top_customers", "table_top_products_by_category",
             "linechart_sales_by_year", "linechart_sales_by_month">>

\* $unwind of products: is there any order line at all
HasOrderLines(d) == \E i \in DOMAIN d["orders"].docs : d["orders"].docs[i].products # <<>>

\* the two $lookup stages: is there an order line whose product and whose
\* product's category are both stored
HasJoinedLines(d) ==
   \E i \in DOMAIN d["orders"].docs :
      \E j \in DOMAIN d["orders"].docs[i].products :
         \E p \in DOMAIN d["products"].docs :
            /\ d["products"].docs[p].id = d["orders"].docs[i].products[j].product_id
            /\ \E c \in DOMAIN d["categories"].docs :
                  d["categories"].docs[c].id = d["products"].docs[p].category_id

\* does the function raise on what its aggregation returns: sort_values on a
\* frame without columns, min() of an empty list
RaisesOnResult(name, d) ==
   CASE name = "barchart_top_customers" -> FALSE
     [] name = "table_top_products_by_category" -> ~HasJoinedLines(d)
     [] name = "linechart_sales_by_year" -> ~HasOrderLines(d)
     [] name = "linechart_sales_by_month" -> FALSE

\* a slip: the two line charts called in the other order
ReportAfter_month_first(name) ==
   CASE name = "barchart_top_customers" -> "table_top_products_by_category"
     [] name = "table_top_products_by_category" -> "linechart_sales_by_month"
     [] name = "linechart_sales_by_month" -> "linechart_sales_by_year"
     [] name = "linechart_sales_by_year" -> "done"

\* the call main makes after a reporting function has returned
ReportAfter(name) ==
   CASE name = "barchart_top_customers" -> "table_top_products_by_category"
     [] name = "table_top_products_by_category" -> "linechart_sales_by_year"
     [] name = "linechart_sales_by_year" -> "linechart_sales_by_month"
     [] name = "linechart_sales_by_month" -> "done"

\* a slip: a pipeline ending in a $out stage, which replaces the collection
\* it names by the result of the aggregation
report_with_out_stage(name) ==
   /\ pc = name
   /\ calls' = Append(calls, name)
   /\ \E aggregate_raises \in BOOLEAN :
         pc' = IF aggregate_raises \/ RaisesOnResult(name, db) THEN "crashed"
               ELSE ReportAfter(name)
   /\ db' = [db EXCEPT !["orders"] = [@ EXCEPT !.docs = <<>>]]
   /\ UNCHANGED <<files, clients, orders, log>>

\* one reporting function: the aggregate call can raise, and so can the code
\* after it; nothing catches, so the run ends there
report(name) ==
   /\ pc = name
   /\ calls' = Append(calls, name)
   /\ \E aggregate_raises \in BOOLEAN :
         pc' = IF aggregate_raises \/ RaisesOnResult(name, db) THEN "crashed"
               ELSE ReportAfter(name)
   /\ UNCHANGED <<files, db, clients, orders, log>>

(***************************************************************************)
(* Generator actions: open(file_path, "w") can raise, which ends the run.  *)
(***************************************************************************)
generate_categories_csv ==
   /\ pc = "generate_categories_csv"
   /\ calls' = Append(calls, "generate_categories_csv")
   /\ \E opened \in BOOLEAN :
         IF opened
         THEN /\ files' = [files EXCEPT !["categories"] = File(CategoriesRows)]
              /\ pc' = "generate_products_csv"
         ELSE /\ files' = files
              /\ pc' = "crashed"
   /\ UNCHANGED <<db, clients, orders, log>>

generate_products_csv ==
   /\ pc = "generate_products_csv"
   /\ calls' = Append(calls, "generate_products_csv")
   /\ \E opened \in BOOLEAN :
         IF opened
         THEN /\ files' = [files EXCEPT !["products"] = File(ProductsRows)]
              /\ pc' = "generate_orders_csv"
         ELSE /\ files' = files
              /\ pc' = "crashed"
   /\ UNCHANGED <<db, clients, orders, log>>

generate_orders_csv(draws, num_records) ==
   /\ pc = "generate_orders_csv"
   /\ calls' = Append(calls, "generate_orders_csv")
   /\ \E opened \in BOOLEAN :
         IF opened
         THEN /\ \E rows \in OrdersRows(draws, 0, num_records) :
                    files' = [files EXCEPT !["orders"] = File(rows)]
              /\ pc' = "create"
         ELSE /\ files' = files
              /\ pc' = "crashed"
   /\ UNCHANGED <<db, clients, orders, log>>

(***************************************************************************)
(* States a run can start from.                                            *)
(***************************************************************************)
Fresh(c) == [exists |-> TRUE, validator |-> ValidatorOf(c), docs |-> <<>>]

\* the file an earlier run left for the orders
EarlierOrdersRows == << OrderLine(0, 6000, 1, 1, 1) >>

EarlierFiles ==
   [categories |-> File(CategoriesRows), products |-> File(ProductsRows),
    orders |-> File(EarlierOrdersRows)]

NoFiles == [categories |-> NoFile, products |-> NoFile, orders |-> NoFile]

\* the documents an earlier run loaded into collection c
EarlierDocs(c) ==
   CASE c = "categories" -> CategoriesRows
     [] c = "products" -> ProductsRows
     [] c = "orders" -> order_documents(EarlierOrdersRows, 1)

Loaded(c) == [exists |-> TRUE, validator |-> ValidatorOf(c), docs |-> EarlierDocs(c)]

\* what a collection can be before a run: absent, empty, or holding documents
InitialCollection(c) == {Absent, Fresh(c), Loaded(c)}

InitialDbs ==
   { d \in [CollectionNames -> UNION { InitialCollection(c) : c \in CollectionNames }] :
        \A c \in CollectionNames : d[c] \in InitialCollection(c) }

\* the connections: create() and load() bind theirs when called, the
\* reporting module opened its own when main imported it
InitialClients == [create |-> "none", load |-> "none", visualize |-> "open"]

(***************************************************************************)
(* The run of __main__.py.                                                 *)
(***************************************************************************)
Init ==
   /\ pc = "generate_categories_csv"
   /\ calls = <<>>
   /\ files \in {NoFiles, EarlierFiles}
   /\ db \in InitialDbs
   /\ clients = InitialClients
   /\ orders = <<>>
   /\ log = <<>>

Next ==
   \/ generate_categories_csv
   \/ generate_products_csv
   \/ generate_orders_csv(DrawsOfRun, NumRecords)
   \/ create_connect
   \/ \E c \in CollectionNames : create_setup(c)
   \/ create_except
   \/ create_finally
   \/ load_connect
   \/ \E c \in {"categories", "products"} : load_dataframe_mongodb(c)
   \/ load_orders_with_products
   \/ load_orders_insert
   \/ load_except
   \/ load_finally
   \/ \E name \in Range(Reports) : report(name)

Spec == Init /\ [][Next]_vars

(***************************************************************************)
(* The provisioner run MaxCreates times in succession.                     *)
(***************************************************************************)
InitCreate ==
   /\ pc = "create"
   /\ calls = <<>>
   /\ files = NoFiles
   /\ db \in InitialDbs
   /\ clients = InitialClients
   /\ orders = <<>>
   /\ log = <<>>

\* create() is called again once it has returned
create_again ==
   /\ pc = "load"
   /\ Len(calls) < MaxCreates
   /\ pc' = "create"
   /\ clients' = [clients EXCEPT !.create = "none"]
   /\ UNCHANGED <<calls, files, db, orders, log>>

NextCreate ==
   \/ create_connect
   \/ \E c \in CollectionNames : create_setup(c)
   \/ create_except
   \/ create_finally
   \/ create_again

SpecCreate == InitCreate /\ [][NextCreate]_vars

(***************************************************************************)
(* The orders step of the loader on any orders table.                      *)
(***************************************************************************)
TableKeys == { <<0, 1000, 1>>, <<0, 1000, 2>>, <<0, 6000, 1>>, <<1, 1000, 1>> }

\* the text of the unit value of a table row, by product
TableUnitValue(product_id) ==
   IF product_id = 1 THEN <<"9", ".", "7", "8">> ELSE <<"1", "9", ",", "9", "9">>

\* the texts of the rows of quantity 2: a trailing zero, and no number at all
TableUnitValueOther(product_id) ==
   IF product_id = 1 THEN <<"1", "9", ".", "9", "0">> ELSE <<"a", "b", "c">>

TableRows ==
   { [id |-> k[1], customer_id |-> k[2], date |-> k[3], product_id |-> p,
      product_quantity |-> q,
      product_unit_value |-> IF q = 1 THEN TableUnitValue(p) ELSE TableUnitValueOther(p)] :
        k \in TableKeys, p \in {1, 2}, q \in {1, 2} }

Tables == UNION { [1..n -> TableRows] : n \in 0..MaxRows }

\* load() has inserted the categories and the products and is about to read
\* the orders file
InitLoad ==
   /\ pc = "load_orders"
   /\ calls = <<"generate_categories_csv", "generate_products_csv",
                "generate_orders_csv", "create", "load">>
   /\ \E table \in Tables :
         files = [categories |-> File(CategoriesRows), products |-> File(ProductsRows),
                  orders |-> File(table)]
   /\ db = [c \in CollectionNames |->
              IF c = "orders" THEN Fresh(c)
              ELSE [exists |-> TRUE, validator |-> ValidatorOf(c),
                    docs |-> IF c = "categories" THEN CategoriesRows ELSE ProductsRows]]
   /\ clients = [InitialClients EXCEPT !.create = "closed", !.load = "open"]
   /\ orders = <<>>
   /\ log = << SetupCompleted("categories"), SetupCompleted("products"),
               SetupCompleted("orders"), LoadCompleted("categories"),
               LoadCompleted("products") >>

NextLoad ==
   \/ load_orders_with_products
   \/ load_orders_insert
   \/ load_except
   \/ load_finally

SpecLoad == InitLoad /\ [][NextLoad]_vars

(***************************************************************************)
(* The generator of the orders file on its own, for any num_records.       *)
(***************************************************************************)
InitGen ==
   /\ pc = "generate_categories_csv"
   /\ calls = <<>>
   /\ files \in {NoFiles, EarlierFiles}
   /\ db = [c \in CollectionNames |-> Absent]
   /\ clients = InitialClients
   /\ orders = <<>>
   /\ log = <<>>

NextGen ==
   \/ generate_categories_csv
   \/ generate_products_csv
   \/ \E n \in 0..MaxRecords : generate_orders_csv(DrawsByProduct, n)
   \/ \E n \in 0..MaxRecords : generate_orders_csv(DrawsByOrder, n)
   \/ \E n \in 0..MaxRecords : generate_orders_csv(DrawsByQuantity, n)

SpecGen == InitGen /\ [][NextGen]_vars

(***************************************************************************)
(* The run up to the return of load(), on a first run of the program, with *)
(* the wider draws for the orders file.                                    *)
(***************************************************************************)
InitGenLoad ==
   /\ pc = "generate_categories_csv"
   /\ calls = <<>>
   /\ files = NoFiles
   /\ db = [c \in CollectionNames |-> Absent]
   /\ clients = InitialClients
   /\ orders = <<>>
   /\ log = <<>>

NextGenLoad ==
   \/ generate_categories_csv
   \/ generate_products_csv
   \/ generate_orders_csv(DrawsByOrder, NumRecords)
   \/ generate_orders_csv(DrawsByQuantity, NumRecords)
   \/ create_connect
   \/ \E c \in CollectionNames : create_setup(c)
   \/ create_except
   \/ create_finally
   \/ load_connect
   \/ \E c \in {"categories", "products"} : load_dataframe_mongodb(c)
   \/ load_orders_with_products
   \/ load_orders_insert
   \/ load_except
   \/ load_finally

SpecGenLoad == InitGenLoad /\ [][NextGenLoad]_vars

(***************************************************************************)
(* Properties.                                                             *)
(***************************************************************************)
RECURSIVE TotalProducts(_)
\* the summed length of the products arrays of a list of Order documents
TotalProducts(docs) ==
   IF docs = <<>> THEN 0 ELSE Len(docs[1].products) + TotalProducts(Tail(docs))

OrdersTable == files["orders"].rows

DistinctKeys(rows) == { KeyOf(rows[i]) : i \in DOMAIN rows }

Logged(entry) == entry \in Range(log)

\* C1: for every orders table, the loader builds (and, when the insert
\* succeeds, stores) exactly one document per distinct (id, customer_id,
\* date) of the rows, and the products arrays of the documents together hold
\* as many entries as the table has rows.
C1_GroupingCounts ==
   /\ pc = "load_orders_insert" =>
         /\ Len(orders) = Cardinality(DistinctKeys(OrdersTable))
         /\ TotalProducts(orders) = Len(OrdersTable)
   /\ Logged(LoadCompleted("orders")) =>
         /\ Len(db["orders"].docs) = Cardinality(DistinctKeys(OrdersTable))
         /\ TotalProducts(db["orders"].docs) = Len(OrdersTable)

\* three rows of two orders have been grouped and stored
C1_Witness ==
   /\ Logged(LoadCompleted("orders"))
   /\ Len(OrdersTable) = 3
   /\ Cardinality(DistinctKeys(OrdersTable)) = 2
   /\ Len(db["orders"].docs) = 2

\* how many rows of the table carry the key, the product and the quantity
RowCount(rows, key, p, q) ==
   Cardinality({ i \in DOMAIN rows :
                   /\ KeyOf(rows[i]) = key
                   /\ rows[i].product_id = p
                   /\ rows[i].product_quantity = q })

\* how many entries of the products array carry the product and the quantity
EntryCount(products, p, q) ==
   Cardinality({ j \in DOMAIN products :
                   /\ products[j].product_id = p
                   /\ products[j].product_quantity = q })

DocKey(doc) == <<doc.id, doc.customer_id, doc.date.timestamp>>

\* C2: the built documents are one per key of the table, and the products
\* array of the document of a key has one entry per row of that key, with the
\* row's product_id and product_quantity: rows of the same product are kept
\* apart, never merged.
C2_OneEntryPerRow ==
   pc = "load_orders_insert" =>
      /\ \A key \in DistinctKeys(OrdersTable) :
            Cardinality({ g \in DOMAIN orders : DocKey(orders[g]) = key }) = 1
      /\ \A g \in DOMAIN orders :
            /\ DocKey(orders[g]) \in DistinctKeys(OrdersTable)
            /\ Len(orders[g].products) =
                  Cardinality({ i \in DOMAIN OrdersTable :
                                  KeyOf(OrdersTable[i]) = DocKey(orders[g]) })
            /\ \A p \in { OrdersTable[i].product_id : i \in DOMAIN OrdersTable },
                  q \in { OrdersTable[i].product_quantity : i \in DOMAIN OrdersTable } :
                  EntryCount(orders[g].products, p, q) =
                     RowCount(OrdersTable, DocKey(orders[g]), p, q)

\* order A has two lines of the same product with different quantities,
\* order B has one line: arrays of length 2 and 1
C2_Witness ==
   /\ pc = "load_orders_insert"
   /\ Len(orders) = 2
   /\ \E a, b \in DOMAIN orders :
         /\ Len(orders[a].products) = 2
         /\ orders[a].products[1].product_id = orders[a].products[2].product_id
         /\ orders[a].products[1].product_quantity # orders[a].products[2].product_quantity
         /\ Len(orders[b].products) = 1

\* the connection a top-level function works on
ClientOf(name) ==
   CASE name = "create" -> "create"
     [] name = "load" -> "load"
     [] OTHER -> "visualize"

UsesStorage(name) == name = "create" \/ name = "load" \/ name \in Range(Reports)

\* main is between two top-level calls, or the run has ended
BetweenCalls ==
   pc \in {"generate_categories_csv", "generate_products_csv", "generate_orders_csv",
           "create", "load", "done", "crashed"} \cup Range(Reports)

\* C3: whenever a top-level operation has returned or raised, the connection
\* it worked on is closed: none is open when the next stage starts or when
\* the run ends.
C3_ConnectionsClosed ==
   BetweenCalls =>
      \A i \in DOMAIN calls :
         UsesStorage(calls[i]) => clients[ClientOf(calls[i])] # "open"

MissingFileReported == \E f \in CollectionNames : Logged(FileNotFound(f))

\* C4: once a missing file has been reported, nothing is inserted any more
\* and no further top-level operation (no reporting function) is called.
C4_MissingFileAbortsRun ==
   [][MissingFileReported => (db' = db /\ calls' = calls)]_vars

CreatePcs == {"create_categories", "create_products", "create_orders"}

LastCreateSucceeded ==
   pc = "load" /\ log # <<>> /\ log[Len(log)] = SetupCompleted("orders")

\* C6: after a successful create(), the first and the second alike, the
\* three collections exist, carry their validators and hold no document,
\* whatever the database held before.
C6_ProvisioningIdempotent ==
   LastCreateSucceeded => \A c \in CollectionNames : db[c] = Fresh(c)

\* two successful create() in succession
C6_Witness ==
   /\ LastCreateSucceeded
   /\ calls = <<"create", "create">>
   /\ Len(log) = 2 * Len(Collections)
   /\ \A c \in CollectionNames : db[c] = Fresh(c)

MainOrder ==
   <<"generate_categories_csv", "generate_products_csv", "generate_orders_csv",
     "create", "load">> \o Reports

\* the positions of main inside the top-level function of that name
PcsOf(name) ==
   CASE name = "create" -> CreatePcs \cup {"create_except", "create_finally"}
     [] name = "load" -> {"load_categories", "load_products", "load_orders",
                          "load_orders_insert", "load_except", "load_finally"}
     [] OTHER -> {}

\* C7: the top-level calls of a run are a prefix of generate categories,
\* products, orders, provision, load and the four reports, in that order and
\* each at most once; while main is inside a function, that function is the
\* last one called, and main is about to call the one after the last called.
C7_LinearOneShot ==
   /\ Len(calls) <= Len(MainOrder)
   /\ \A i \in DOMAIN calls : calls[i] = MainOrder[i]
   /\ \A name \in {"create", "load"} :
         pc \in PcsOf(name) => calls # <<>> /\ calls[Len(calls)] = name
   /\ pc \in Range(MainOrder) => Len(calls) < Len(MainOrder) /\ pc = MainOrder[Len(calls) + 1]
   /\ pc = "done" => calls = MainOrder

C7_Witness == pc = "done" /\ calls = MainOrder

LoadSucceeded == Logged(LoadCompleted("orders"))

GeneratedOrders == pc = "create"

\* C9: every order line the generator wrote names a product of the static
\* table and carries that product's price.
C9_OrderLinesReferToProducts ==
   GeneratedOrders =>
      \A i \in DOMAIN OrdersTable :
         \E k \in DOMAIN products_data :
            /\ products_data[k].id = OrdersTable[i].product_id
            /\ OrdersTable[i].product_unit_value = FloatRepr(products_data[k].price)

\* an orders file with lines of the first and of the last product
C9_Witness ==
   /\ GeneratedOrders
   /\ \E i, j \in DOMAIN OrdersTable :
         /\ OrdersTable[i].product_id = 1
         /\ OrdersTable[j].product_id = Len(products_data)

GeneratedReferenceData == pc \in {"generate_orders_csv", "create"}

UniqueIds(rows) == \A i, j \in DOMAIN rows : rows[i].id = rows[j].id => i = j

\* C10: in the written reference files, every product row's category_id is
\* the id of a written category row, and ids are unique among the categories
\* and among the products.
C10_ReferentialIntegrity ==
   GeneratedReferenceData =>
      /\ \A i \in DOMAIN files["products"].rows :
            \E j \in DOMAIN files["categories"].rows :
               files["categories"].rows[j].id = files["products"].rows[i].category_id
      /\ UniqueIds(files["categories"].rows)
      /\ UniqueIds(files["products"].rows)

\* both reference files have been written in this run
C10_Witness ==
   /\ pc = "generate_orders_csv"
   /\ calls = <<"generate_categories_csv", "generate_products_csv">>
   /\ Len(files["products"].rows) = Len(products_data)
   /\ Len(files["categories"].rows) = Len(categories_data)

\* the decimal a text of the file denotes as entered: its digits, and the
\* number of them after the separator (a period or a comma)
AsEntered(s) ==
   LET seps == { i \in DOMAIN s : s[i] = "." \/ s[i] = "," }
   IN  [coefficient |-> NatOf(SelectSeq(s, IsDigit)),
        exponent |-> IF seps = {} THEN 0
                     ELSE 0 - (Len(s) - (CHOOSE i \in seps : TRUE))]

\* C11: every product_unit_value of a built Order document is the decimal
\* its row entered, digit for digit: the comma of "19,99" read as a period,
\* two fractional digits kept as two.
C11_DecimalAsEntered ==
   pc = "load_orders_insert" =>
      \A g \in DOMAIN orders : \A j \in DOMAIN orders[g].products :
         \E i \in DOMAIN OrdersTable :
            /\ KeyOf(OrdersTable[i]) = DocKey(orders[g])
            /\ OrdersTable[i].product_id = orders[g].products[j].product_id
            /\ OrdersTable[i].product_quantity = orders[g].products[j].product_quantity
            /\ orders[g].products[j].product_unit_value =
                  AsEntered(OrdersTable[i].product_unit_value)

NonNumeric(s) == \E i \in DOMAIN s : ~IsDigit(s[i]) /\ s[i] # "." /\ s[i] # ","

HasMalformedRow == \E i \in DOMAIN OrdersTable : NonNumeric(OrdersTable[i].product_unit_value)

InsertPc(c) == IF c = "orders" THEN "load_orders_insert" ELSE LoadPc(c)

\* load() has returned or raised
LoadFinished ==
   \/ pc \in Range(Reports) \cup {"done"}
   \/ pc = "crashed" /\ \E i \in DOMAIN calls : calls[i] = "load"

\* C12: once load() has finished no step changes a collection, so the four
\* reports only read; outside create(), the documents of a collection change
\* only at the insert_many call of load() for that collection, and load() comes
\* to that call at most once in a run.
C12_CollectionsFrozenAfterLoad ==
   [][ /\ LoadFinished => db' = db
       /\ \A name \in Range(Reports) : pc = name => db' = db
       /\ \A c \in CollectionNames :
             /\ (db'[c].docs # db[c].docs /\ pc \notin CreatePcs) => pc = InsertPc(c)
             /\ (pc' = InsertPc(c) /\ pc # pc') =>
                   /\ pc = CASE c = "categories" -> "load"
                             [] c = "products" -> "load_categories"
                             [] c = "orders" -> "load_orders"
                   /\ ~Logged(LoadCompleted(c))
       /\ (pc' = "load_orders" /\ pc # pc') => pc = "load_products"
       /\ (pc' = "load" /\ pc # pc') => \A i \in DOMAIN calls : calls[i] # "load"
     ]_vars

\* the four reports have run on the collections a successful load left
C12_Witness ==
   /\ pc = "done"
   /\ LoadSucceeded
   /\ db["orders"].docs # <<>>
   /\ calls[Len(calls)] = "linechart_sales_by_month"

\* C13: load() takes the datasets in the order categories, products, orders;
\* a step touches its own collection only and keeps what the collection held;
\* a dataset that is not read or not inserted completely leads to the handler,
\* which logs the error and changes nothing, and from there load() closes its
\* client and returns to main: no step is retried, no later dataset inserted.
C13_LoadAborts ==
   [][ /\ pc' = "load_categories" => pc = "load"
       /\ pc' = "load_products" => pc = "load_categories"
       /\ pc' = "load_orders" => pc = "load_products"
       /\ pc' = "load_orders_insert" => pc = "load_orders"
       /\ \A c \in CollectionNames :
             pc = InsertPc(c) =>
                /\ \A o \in CollectionNames \ {c} : db'[o] = db[o]
                /\ Len(db'[c].docs) >= Len(db[c].docs)
                /\ SubSeq(db'[c].docs, 1, Len(db[c].docs)) = db[c].docs
                /\ IF log' = Append(log, LoadCompleted(c))
                   THEN pc' = CASE c = "categories" -> "load_products"
                                [] c = "products" -> "load_orders"
                                [] c = "orders" -> "load_finally"
                   ELSE pc' = "load_except"
       /\ pc = "load_orders" => (db' = db /\ pc' \in {"load_orders_insert", "load_except"})
       /\ pc = "load_except" =>
             (log' = Append(log, LoadError) /\ db' = db /\ pc' = "load_finally")
       /\ pc = "load_finally" =>
             (db' = db /\ log' = log /\ clients'.load # "open"
                /\ pc' = "barchart_top_customers")
     ]_vars

\* load() has returned after the products failed: the categories it inserted
\* are there, and neither products nor orders were inserted
C13_Witness ==
   /\ pc = "barchart_top_customers"
   /\ Logged(LoadError)
   /\ Logged(LoadCompleted("categories"))
   /\ ~Logged(LoadCompleted("products"))
   /\ db["categories"].docs = CategoriesRows
   /\ db["products"].docs = <<>>
   /\ db["orders"].docs = <<>>

\* the rows of the orders file written for order id i
LinesOf(i) == { r \in DOMAIN OrdersTable : OrdersTable[r].id = i }

\* C14: the documents built from a file generate_orders_csv wrote for
\* num_records orders are num_records documents with the ids 0 to
\* num_records - 1, each once, and they are what a successful insert stores;
\* every order id has one to three lines in the file, all with the same
\* customer and date, and every quantity is 1 or 2.
C14_OneDocumentPerGeneratedOrder ==
   /\ pc = "load_orders_insert" =>
         /\ Len(orders) = NumRecords
         /\ { orders[g].id : g \in DOMAIN orders } = 0..(NumRecords - 1)
         /\ \A g \in DOMAIN orders :
               /\ Len(orders[g].products) = Cardinality(LinesOf(orders[g].id))
               /\ \A j \in DOMAIN orders[g].products :
                     orders[g].products[j].product_quantity \in {1, 2}
         /\ \A i \in 0..(NumRecords - 1) :
               /\ Cardinality(LinesOf(i)) \in 1..3
               /\ \A a, b \in LinesOf(i) :
                     /\ OrdersTable[a].customer_id = OrdersTable[b].customer_id
                     /\ OrdersTable[a].date = OrdersTable[b].date
         /\ \A r \in DOMAIN OrdersTable : OrdersTable[r].id \in 0..(NumRecords - 1)
   /\ LoadSucceeded =>
         /\ db["orders"].docs = orders
         /\ Len(db["orders"].docs) = NumRecords

\* a loaded run whose first order has three lines and whose last has one,
\* for two different customers
C14_Witness ==
   /\ LoadSucceeded
   /\ pc = "barchart_top_customers"
   /\ Len(db["orders"].docs) = NumRecords
   /\ Len(db["orders"].docs[1].products) = 3
   /\ Len(db["orders"].docs[NumRecords].products) = 1
   /\ db["orders"].docs[1].customer_id # db["orders"].docs[NumRecords].customer_id

====
